---- MODULE Spec2Model ----
(***************************************************************************)
(* The three variants of api/loader.js of the bellpepper.ai proxy:         *)
(*   v1.5  the Vercel serverless function of src/api/loader.js:1-124       *)
(*   edge  the edge-runtime function of src/api/loader.js:126-199          *)
(*   v1.2  the Vercel serverless function of src/unnamed/part_000          *)
(* One behaviour is one invocation of the deployed variant's handler: its  *)
(* synchronous prefix, then one step for every fetch that settles, with    *)
(* the handler's continuation (run by the microtask queue right after the  *)
(* settlement) as part of that step.                                       *)
(*                                                                         *)
(* A JavaScript string is a sequence of text fragments: single characters  *)
(* where the code inspects characters (paths, identifiers), whole literals *)
(* where it only concatenates.  Concatenation is \o, the empty string is   *)
(* << >>.                                                                  *)
(***************************************************************************)
EXTENDS Integers, Sequences, FiniteSets

VARIABLES
  variant,     \* which api/loader.js is deployed: "v15", "edge" or "v12"
  env,         \* process.env as read when the module is loaded
  request,     \* the request of this invocation, NoRequest before it
  customerId,  \* the handler's local customerId
  fetches,     \* per content-store file: the promise of its fetch helper call
  pc,          \* the handler's position
  responses    \* the responses sent (or returned), in order

vars == <<variant, env, request, customerId, fetches, pc, responses>>

-----------------------------------------------------------------------------
(* JavaScript values *)

\* null / undefined: a one-element sequence whose element is no text
\* fragment of any string of the model, so that it equals no string.
Null == <<"\\null">>

\* ToBoolean of a string-or-null value: null and '' are falsy.
Truthy(x) == x # Null /\ x # << >>

\* a || b
JsOr(a, b) == IF Truthy(a) THEN a ELSE b

\* `${x}` inside a template literal
TemplateStr(x) == IF x = Null THEN <<"n", "u", "l", "l">> ELSE x

StartsWith(s, pre) ==
  Len(s) >= Len(pre) /\ SubSeq(s, 1, Len(pre)) = pre

EndsWith(s, suf) ==
  Len(s) >= Len(suf) /\ SubSeq(s, Len(s) - Len(suf) + 1, Len(s)) = suf

\* s.slice(1)
SliceFrom1(s) == SubSeq(s, 2, Len(s))

\* s.slice(0, -n), n > 0
SliceOffEnd(s, n) == SubSeq(s, 1, IF Len(s) >= n THEN Len(s) - n ELSE 0)

-----------------------------------------------------------------------------
(* Bounds and input domains *)

\* longest url.pathname of the identifier-resolution check, in characters
MaxPathLen == 5

\* the characters of pathnames and of `id` values
Chars == {"/", ".", "a", "j", "s"}

Strs(n) == UNION {[1..k -> Chars] : k \in 0..n}

\* A segment of p starting at position i is the dot segment `.` or `..`.
DotSegmentAt(p, i) ==
  /\ p[i] = "."
  /\ \/ i = Len(p)
     \/ p[i + 1] = "/"
     \/ /\ p[i + 1] = "."
        /\ (i + 1 = Len(p) \/ p[i + 2] = "/")

\* url.pathname of an https: URL starts with "/" and holds no dot segment
\* (the URL parser removes them).
IsPathname(p) ==
  /\ Len(p) >= 1
  /\ p[1] = "/"
  /\ \A i \in 2..Len(p) : p[i - 1] = "/" => ~DotSegmentAt(p, i)

PathNames(n) == {p \in Strs(n) : IsPathname(p)}

\* url.searchParams.get('id'): null when the parameter is absent
QueryIds == {Null, << >>, <<"a">>, <<"s", "a">>, <<"a", ".", "j", "s">>,
             <<"s", "/", "a">>}

Methods == {"GET", "OPTIONS"}

\* url.searchParams.get('bp_branch'), were it asked for: null when absent
BranchParams == {Null, <<"test">>, <<"x">>}

\* The request as the handler reads it. urlOk = FALSE: `new URL(...)` throws
\* (a request target such as `//`, a missing Host header).
Requests(paths) ==
  [method : Methods, urlOk : {TRUE}, pathname : paths, id : QueryIds,
   bp_branch : BranchParams]
    \cup [method : Methods, urlOk : {FALSE}, pathname : {<<"/">>}, id : {Null},
          bp_branch : {Null}]

\* the pathnames of the pipeline specification
SamplePaths ==
  {<<"/">>, <<"/", "a">>, <<"/", "a", "/">>, <<"/", "a", ".", "j", "s">>,
   <<"/", ".", "j", "s">>, <<"/", "/">>, <<"/", "s", "/", "a">>}

NoRequest ==
  [method |-> "none", urlOk |-> FALSE, pathname |-> << >>, id |-> Null,
   bp_branch |-> Null]

-----------------------------------------------------------------------------
(* process.env *)

\* VERCEL_GIT_COMMIT_REF and VERCEL_ENV, either of them possibly unset
Envs ==
  [VERCEL_GIT_COMMIT_REF : {Null, <<"dev">>},
   VERCEL_ENV : {Null, <<"production">>, <<"preview">>}]

\* the edge and v1.2 variants read neither variable
NoEnv == [VERCEL_GIT_COMMIT_REF |-> Null, VERCEL_ENV |-> Null]

GIT_BRANCH == JsOr(env.VERCEL_GIT_COMMIT_REF, <<"main">>)

VERCEL_ENV == JsOr(env.VERCEL_ENV, <<"development">>)

-----------------------------------------------------------------------------
(* The content store, as seen through fetch() *)

\* what a present, non-empty file at `path` holds: distinct for distinct paths
FileContent(path) == <<"{">> \o path \o <<"}">>

\* How fetch() of `path` can settle: a transport failure, or a response with
\* a status and a body. A file that is present may be empty.
FetchOutcomes(path) ==
  {[settled |-> "error", status |-> 0, text |-> << >>],
   [settled |-> "response", status |-> 404, text |-> <<"Not Found">>],
   [settled |-> "response", status |-> 500, text |-> <<"Server Error">>],
   [settled |-> "response", status |-> 200, text |-> << >>],
   [settled |-> "response", status |-> 200, text |-> FileContent(path)]}

\* response.ok
ResponseOk(status) == status >= 200 /\ status <= 299

Fulfilled(v) == [state |-> "fulfilled", value |-> v]

Rejected == [state |-> "rejected", value |-> Null]

\* Faulty helper: every response that is not ok counts as not found.
getFileFromGitHubLenient(outcome) ==
  IF outcome.settled = "error" THEN Rejected
  ELSE IF ~ResponseOk(outcome.status) THEN Fulfilled(Null)
       ELSE Fulfilled(outcome.text)

\* v1.5: the settlement of getFileFromGitHub(path, ref) given fetch's outcome
getFileFromGitHub(outcome) ==
  IF outcome.settled = "error" THEN Rejected
  ELSE IF ~ResponseOk(outcome.status)
       THEN IF outcome.status = 404 THEN Fulfilled(Null) ELSE Rejected
       ELSE Fulfilled(outcome.text)

\* v1.2: the settlement of getFileFromGitHub(path)
V12getFileFromGitHub(outcome) ==
  IF outcome.settled = "error" THEN Rejected
  ELSE IF ~ResponseOk(outcome.status)
       THEN IF outcome.status = 404 THEN Fulfilled(Null) ELSE Rejected
       ELSE Fulfilled(outcome.text)

\* Faulty helper: response.ok is not checked.
fetchFromGitHubUnchecked(outcome) ==
  IF outcome.settled = "error" THEN Rejected ELSE Fulfilled(outcome.text)

\* edge: the settlement of fetchFromGitHub(filePath, githubToken)
fetchFromGitHub(outcome) ==
  IF outcome.settled = "error" THEN Rejected
  ELSE IF ~ResponseOk(outcome.status) THEN Rejected
       ELSE Fulfilled(outcome.text)

coreScriptPath == <<"configs/chatbot-core.js">>

defaultConfigPath == <<"configs/default.json">>

\* `configs/customers/${customerId}.json`
customerConfigPath(id) ==
  <<"configs/customers/">> \o TemplateStr(id) \o <<".json">>

\* fetch() has not settled yet
NoOutcome == [settled |-> "pending", status |-> 0, text |-> << >>]

\* A fetch helper call just issued: the file asked for, its path and ref (Null
\* where the variant names none), how fetch() settled, and the state and the
\* value of the promise the helper returned.
NewFetch(file, path, ref) ==
  [file |-> file, path |-> path, ref |-> ref, outcome |-> NoOutcome,
   state |-> "pending", value |-> Null]

\* fetch() of the i-th call settles as outcome, the helper's promise as r
Settle(f, i, outcome, r) ==
  [f EXCEPT ![i] = [@ EXCEPT !.outcome = outcome, !.state = r.state,
                             !.value = r.value]]

\* what a handler step does: its next position, the fetch log, what it sends
Effect(pcv, f, sends) == [pc |-> pcv, fetches |-> f, send |-> sends]

Response(status, headers, body) ==
  [status |-> status, headers |-> headers, body |-> body]

\* response.setHeader(name, value)
SetHeader(h, name, value) == {p \in h : p[1] # name} \cup {<<name, value>>}

-----------------------------------------------------------------------------
(* v1.5: src/api/loader.js:39-124 *)

ACAO == <<"Access-Control-Allow-Origin", "*">>

\* Faulty resolution: the trailing slash of the path is kept.
ResolveKeepsSlash(req) ==
  IF Truthy(req.id) THEN req.id
  ELSE LET pathId1 == IF StartsWith(req.pathname, <<"/">>)
                      THEN SliceFrom1(req.pathname) ELSE req.pathname
       IN IF Truthy(pathId1)
          THEN IF EndsWith(pathId1, <<".", "j", "s">>)
               THEN SliceOffEnd(pathId1, 3) ELSE pathId1
          ELSE Null

\* The customerId of a request: the `id` query parameter when it is truthy,
\* else the pathname without its leading slash, one trailing slash and a
\* trailing `.js`; null when the pathname is just `/`.
ResolveCustomerId(req) ==
  IF Truthy(req.id) THEN req.id
  ELSE LET pathId1 == IF StartsWith(req.pathname, <<"/">>)
                      THEN SliceFrom1(req.pathname) ELSE req.pathname
       IN IF Truthy(pathId1)
          THEN LET pathId2 == IF EndsWith(pathId1, <<"/">>)
                              THEN SliceOffEnd(pathId1, 1) ELSE pathId1
                   pathId3 == IF EndsWith(pathId2, <<".", "j", "s">>)
                              THEN SliceOffEnd(pathId2, 3) ELSE pathId2
               IN pathId3
          ELSE Null

\* the preflight response
V15Preflight ==
  Response(204,
           {ACAO, <<"Access-Control-Allow-Methods", "GET, OPTIONS">>,
            <<"Access-Control-Allow-Headers", "Content-Type">>},
           << >>)

V15BadRequest ==
  Response(400, {}, <<"// Error: Customer ID could not be determined.">>)

V15NoDefault ==
  Response(404, {},
    <<"// Error: Default configuration could not be found in branch \"${GIT_BRANCH}\".">>)

V15NoCore ==
  Response(500, {},
    <<"// Error: Core chatbot script could not be loaded from branch \"${GIT_BRANCH}\".">>)

\* the catch block
V15Catch ==
  Response(500, {ACAO}, <<"// Server Error: Could not process the request.">>)

\* Faulty script: the banner comment is put after the engine script.
V15FinalScriptBannerLast(finalConfigContent, coreJsContent) ==
  <<"window.ChatWidgetConfig = ">>
    \o TemplateStr(finalConfigContent) \o <<";", "\n\n">>
    \o TemplateStr(coreJsContent) \o <<"\n">>
    \o <<"//", " Vercel Env: ">> \o VERCEL_ENV \o <<" | Branch: ">> \o GIT_BRANCH
    \o <<"\n">>

\* finalScript
V15FinalScript(finalConfigContent, coreJsContent) ==
  <<"//", " Vercel Env: ">> \o VERCEL_ENV \o <<" | Branch: ">> \o GIT_BRANCH
    \o <<"\n">> \o <<"window.ChatWidgetConfig = ">>
    \o TemplateStr(finalConfigContent) \o <<";", "\n\n">>
    \o TemplateStr(coreJsContent)

\* Faulty cache policy: the two directives are swapped.
V15CacheControlSwapped ==
  IF VERCEL_ENV # <<"production">>
  THEN "s-maxage=3600, stale-while-revalidate"
  ELSE "no-cache, no-store, must-revalidate"

V15CacheControl ==
  IF VERCEL_ENV # <<"production">>
  THEN "no-cache, no-store, must-revalidate"
  ELSE "s-maxage=3600, stale-while-revalidate"

\* the header configuration and the 200 response
V15Ok(finalConfigContent, coreJsContent) ==
  Response(200,
    SetHeader(SetHeader(SetHeader({}, ACAO[1], ACAO[2]),
                        "Content-Type", "application/javascript; charset=utf-8"),
              "Cache-Control", V15CacheControl),
    V15FinalScript(finalConfigContent, coreJsContent))

\* Faulty completion: coreJsContent is not checked.
V15FinishUnchecked(finalConfigContent, coreJsContent) ==
  V15Ok(finalConfigContent, coreJsContent)

\* from the check of coreJsContent to the 200 response
V15Finish(finalConfigContent, coreJsContent) ==
  IF ~Truthy(coreJsContent) THEN V15NoCore
  ELSE V15Ok(finalConfigContent, coreJsContent)

\* Faulty resumption: the customer config is acted on as soon as it is known,
\* whether or not the core script's promise has settled.
V15AfterAllEager(f) ==
  IF f[1].state = "rejected" \/ f[2].state = "rejected"
  THEN Effect("done", f, <<V15Catch>>)
  ELSE IF f[2].state = "fulfilled" /\ ~Truthy(f[2].value)
       THEN Effect("awaitDefault",
                   Append(f, NewFetch("default", defaultConfigPath, GIT_BRANCH)),
                   << >>)
       ELSE IF f[1].state = "fulfilled" /\ f[2].state = "fulfilled"
            THEN Effect("done", f, <<V15Finish(f[2].value, f[1].value)>>)
            ELSE Effect("awaitAll", f, << >>)

\* The handler resumes from `await Promise.all([...])`: f[1] is the core
\* script's promise, f[2] the customer config's. Promise.all rejects with the
\* first rejection and is fulfilled once both are.
V15AfterAll(f) ==
  IF f[1].state = "rejected" \/ f[2].state = "rejected"
  THEN Effect("done", f, <<V15Catch>>)
  ELSE IF f[1].state = "fulfilled" /\ f[2].state = "fulfilled"
       THEN IF ~Truthy(f[2].value)
            THEN Effect("awaitDefault",
                        Append(f, NewFetch("default", defaultConfigPath, GIT_BRANCH)),
                        << >>)
            ELSE Effect("done", f, <<V15Finish(f[2].value, f[1].value)>>)
       ELSE Effect("awaitAll", f, << >>)

\* Faulty resumption: coreJsContent is checked before the default config.
V15AfterDefaultCoreFirst(f) ==
  IF f[3].state = "rejected" THEN Effect("done", f, <<V15Catch>>)
  ELSE IF f[3].state = "fulfilled"
       THEN IF ~Truthy(f[1].value)
            THEN Effect("done", f, <<V15NoCore>>)
            ELSE IF ~Truthy(f[3].value)
                 THEN Effect("done", f, <<V15NoDefault>>)
                 ELSE Effect("done", f, <<V15Ok(f[3].value, f[1].value)>>)
       ELSE Effect("awaitDefault", f, << >>)

\* Faulty resumption: the 404 is sent without returning from the handler.
V15AfterDefaultNoReturn(f) ==
  IF f[3].state = "rejected" THEN Effect("done", f, <<V15Catch>>)
  ELSE IF f[3].state = "fulfilled"
       THEN IF ~Truthy(f[3].value)
            THEN Effect("done", f,
                        <<V15NoDefault, V15Finish(f[3].value, f[1].value)>>)
            ELSE Effect("done", f, <<V15Finish(f[3].value, f[1].value)>>)
       ELSE Effect("awaitDefault", f, << >>)

\* The handler resumes from the await of the default config, f[3].
V15AfterDefault(f) ==
  IF f[3].state = "rejected" THEN Effect("done", f, <<V15Catch>>)
  ELSE IF f[3].state = "fulfilled"
       THEN IF ~Truthy(f[3].value)
            THEN Effect("done", f, <<V15NoDefault>>)
            ELSE Effect("done", f, <<V15Finish(f[3].value, f[1].value)>>)
       ELSE Effect("awaitDefault", f, << >>)

\* Faulty prefix: the preflight check comes after the URL is parsed.
V15StartLatePreflight(req) ==
  IF ~req.urlOk THEN Effect("done", << >>, <<V15Catch>>)
  ELSE IF req.method = "OPTIONS" THEN Effect("done", << >>, <<V15Preflight>>)
  ELSE IF ~Truthy(ResolveCustomerId(req))
       THEN Effect("done", << >>, <<V15BadRequest>>)
       ELSE Effect("awaitAll",
                   <<NewFetch("core", coreScriptPath, GIT_BRANCH),
                     NewFetch("customer",
                              customerConfigPath(ResolveCustomerId(req)),
                              GIT_BRANCH)>>,
                   << >>)

\* Faulty prefix: a bp_branch query parameter overrides the ref.
V15StartBranchParam(req) ==
  IF req.method = "OPTIONS" THEN Effect("done", << >>, <<V15Preflight>>)
  ELSE IF ~req.urlOk THEN Effect("done", << >>, <<V15Catch>>)
  ELSE IF ~Truthy(ResolveCustomerId(req))
       THEN Effect("done", << >>, <<V15BadRequest>>)
       ELSE Effect("awaitAll",
                   <<NewFetch("core", coreScriptPath,
                              JsOr(req.bp_branch, GIT_BRANCH)),
                     NewFetch("customer",
                              customerConfigPath(ResolveCustomerId(req)),
                              JsOr(req.bp_branch, GIT_BRANCH))>>,
                   << >>)

\* The handler from its invocation to its first await or return.
V15Start(req) ==
  IF req.method = "OPTIONS" THEN Effect("done", << >>, <<V15Preflight>>)
  ELSE IF ~req.urlOk THEN Effect("done", << >>, <<V15Catch>>)
  ELSE IF ~Truthy(ResolveCustomerId(req))
       THEN Effect("done", << >>, <<V15BadRequest>>)
       ELSE Effect("awaitAll",
                   <<NewFetch("core", coreScriptPath, GIT_BRANCH),
                     NewFetch("customer",
                              customerConfigPath(ResolveCustomerId(req)),
                              GIT_BRANCH)>>,
                   << >>)

\* the customerId local after the synchronous prefix
V15CustomerId(req) ==
  IF req.method = "OPTIONS" \/ ~req.urlOk THEN Null ELSE ResolveCustomerId(req)

V15Handler(req) ==
  /\ variant = "v15"
  /\ pc = "idle"
  /\ request' = req
  /\ customerId' = V15CustomerId(req)
  /\ fetches' = V15Start(req).fetches
  /\ pc' = V15Start(req).pc
  /\ responses' = responses \o V15Start(req).send
  /\ UNCHANGED <<variant, env>>

\* A pending fetch settles; the handler, if it awaits it, resumes.
V15FetchSettles(i, outcome) ==
  /\ variant = "v15"
  /\ fetches[i].state = "pending"
  /\ LET f == Settle(fetches, i, outcome, getFileFromGitHub(outcome))
         e == IF pc = "awaitAll" THEN V15AfterAll(f)
              ELSE IF pc = "awaitDefault" THEN V15AfterDefault(f)
              ELSE Effect(pc, f, << >>)
     IN /\ fetches' = e.fetches
        /\ pc' = e.pc
        /\ responses' = responses \o e.send
  /\ UNCHANGED <<variant, env, request, customerId>>

-----------------------------------------------------------------------------
(* v1.2: src/unnamed/part_000:19-73 *)

\* Faulty resolution: the path is asked before the `id` parameter.
V12ResolvePathFirst(req) ==
  LET pathId1 == IF StartsWith(req.pathname, <<"/">>)
                 THEN SliceFrom1(req.pathname) ELSE req.pathname
      pathId2 == IF EndsWith(pathId1, <<"/">>)
                 THEN SliceOffEnd(pathId1, 1) ELSE pathId1
      pathId3 == IF EndsWith(pathId2, <<".", "j", "s">>)
                 THEN SliceOffEnd(pathId2, 3) ELSE pathId2
  IN IF Truthy(pathId3) THEN pathId3
     ELSE IF Truthy(req.id) THEN req.id ELSE Null

\* The customerId of a request, as in v1.5.
V12ResolveCustomerId(req) ==
  IF Truthy(req.id) THEN req.id
  ELSE LET pathId1 == IF StartsWith(req.pathname, <<"/">>)
                      THEN SliceFrom1(req.pathname) ELSE req.pathname
       IN IF Truthy(pathId1)
          THEN LET pathId2 == IF EndsWith(pathId1, <<"/">>)
                              THEN SliceOffEnd(pathId1, 1) ELSE pathId1
                   pathId3 == IF EndsWith(pathId2, <<".", "j", "s">>)
                              THEN SliceOffEnd(pathId2, 3) ELSE pathId2
               IN pathId3
          ELSE Null

V12BadRequest ==
  Response(400, {}, <<"Error: Customer ID could not be determined.">>)

V12NoDefault ==
  Response(404, {}, <<"Error: Default configuration could not be found.">>)

V12NoCore ==
  Response(500, {}, <<"Error: Core chatbot script could not be loaded.">>)

V12Catch ==
  Response(500, {}, <<"// Server Error: Could not process the request.">>)

V12FinalScript(finalConfigContent, coreJsContent) ==
  <<"window.ChatWidgetConfig = ">> \o TemplateStr(finalConfigContent)
    \o <<";", "\n\n">> \o TemplateStr(coreJsContent)

V12Ok(finalConfigContent, coreJsContent) ==
  Response(200,
    SetHeader(SetHeader({}, "Content-Type",
                        "application/javascript; charset=utf-8"),
              "Cache-Control", "s-maxage=3600, stale-while-revalidate"),
    V12FinalScript(finalConfigContent, coreJsContent))

V12Finish(finalConfigContent, coreJsContent) ==
  IF ~Truthy(coreJsContent) THEN V12NoCore
  ELSE V12Ok(finalConfigContent, coreJsContent)

V12AfterAll(f) ==
  IF f[1].state = "rejected" \/ f[2].state = "rejected"
  THEN Effect("done", f, <<V12Catch>>)
  ELSE IF f[1].state = "fulfilled" /\ f[2].state = "fulfilled"
       THEN IF ~Truthy(f[2].value)
            THEN Effect("awaitDefault",
                        Append(f, NewFetch("default", defaultConfigPath, Null)),
                        << >>)
            ELSE Effect("done", f, <<V12Finish(f[2].value, f[1].value)>>)
       ELSE Effect("awaitAll", f, << >>)

V12AfterDefault(f) ==
  IF f[3].state = "rejected" THEN Effect("done", f, <<V12Catch>>)
  ELSE IF f[3].state = "fulfilled"
       THEN IF ~Truthy(f[3].value)
            THEN Effect("done", f, <<V12NoDefault>>)
            ELSE Effect("done", f, <<V12Finish(f[3].value, f[1].value)>>)
       ELSE Effect("awaitDefault", f, << >>)

\* Faulty prefix: an empty customerId is not rejected.
V12StartUnchecked(req) ==
  IF ~req.urlOk THEN Effect("done", << >>, <<V12Catch>>)
  ELSE Effect("awaitAll",
              <<NewFetch("core", coreScriptPath, Null),
                NewFetch("customer",
                         customerConfigPath(V12ResolveCustomerId(req)),
                         Null)>>,
              << >>)

\* The handler from its invocation to its first await or return.
V12Start(req) ==
  IF ~req.urlOk THEN Effect("done", << >>, <<V12Catch>>)
  ELSE IF ~Truthy(V12ResolveCustomerId(req))
       THEN Effect("done", << >>, <<V12BadRequest>>)
       ELSE Effect("awaitAll",
                   <<NewFetch("core", coreScriptPath, Null),
                     NewFetch("customer",
                              customerConfigPath(V12ResolveCustomerId(req)),
                              Null)>>,
                   << >>)

V12CustomerId(req) ==
  IF ~req.urlOk THEN Null ELSE V12ResolveCustomerId(req)

V12Handler(req) ==
  /\ variant = "v12"
  /\ pc = "idle"
  /\ request' = req
  /\ customerId' = V12CustomerId(req)
  /\ fetches' = V12Start(req).fetches
  /\ pc' = V12Start(req).pc
  /\ responses' = responses \o V12Start(req).send
  /\ UNCHANGED <<variant, env>>

V12FetchSettles(i, outcome) ==
  /\ variant = "v12"
  /\ fetches[i].state = "pending"
  /\ LET f == Settle(fetches, i, outcome, V12getFileFromGitHub(outcome))
         e == IF pc = "awaitAll" THEN V12AfterAll(f)
              ELSE IF pc = "awaitDefault" THEN V12AfterDefault(f)
              ELSE Effect(pc, f, << >>)
     IN /\ fetches' = e.fetches
        /\ pc' = e.pc
        /\ responses' = responses \o e.send
  /\ UNCHANGED <<variant, env, request, customerId>>

-----------------------------------------------------------------------------
(* edge: src/api/loader.js:156-199 *)

Letters ==
  {"a", "b", "c", "d", "e", "f", "g", "h", "i", "j", "k", "l", "m", "n", "o",
   "p", "q", "r", "s", "t", "u", "v", "w", "x", "y", "z",
   "A", "B", "C", "D", "E", "F", "G", "H", "I", "J", "K", "L", "M", "N", "O",
   "P", "Q", "R", "S", "T", "U", "V", "W", "X", "Y", "Z"}

Digits == {"0", "1", "2", "3", "4", "5", "6", "7", "8", "9"}

\* Faulty test: the pattern is not anchored, one safe character suffices.
SafeIdUnanchored(id) ==
  \E i \in 1..Len(id) : id[i] \in Letters \cup Digits \cup {"_", "-"}

\* /^[a-zA-Z0-9_-]+$/.test(id)
SafeId(id) ==
  /\ Len(id) >= 1
  /\ \A i \in 1..Len(id) : id[i] \in Letters \cup Digits \cup {"_", "-"}

\* searchParams.get('id') || 'default'
EdgeCustomerId(req) ==
  JsOr(req.id, <<"d", "e", "f", "a", "u", "l", "t">>)

EdgeBadRequest ==
  Response(400, {}, <<"// Error: Invalid customer ID format.">>)

EdgeCatch ==
  Response(500, {}, <<"// Error: Could not build chatbot script.">>)

EdgeFinalScript(configJsonString, coreScriptContent) ==
  <<"window.ChatWidgetConfig = ">> \o TemplateStr(configJsonString)
    \o <<";", "\n\n">> \o TemplateStr(coreScriptContent)

EdgeOk(configJsonString, coreScriptContent) ==
  Response(200,
    {<<"Content-Type", "application/javascript; charset=utf-8">>,
     <<"Cache-Control",
       "public, s-maxage=3600, max-age=300, stale-while-revalidate">>},
    EdgeFinalScript(configJsonString, coreScriptContent))

\* The first element of Promise.all: the customer config's promise f[1] with
\* its .catch handler, which returns the default config's promise (f[3], the
\* call issued when f[1] is rejected).
EdgeConfigPromise(f) ==
  IF f[1].state = "rejected" THEN f[3] ELSE f[1]

\* The .catch handler runs on whatever error rejects the customer config's
\* promise, whether or not the handler has returned already.
EdgeOnSettle(f, i) ==
  IF i = 1 /\ f[1].state = "rejected"
  THEN Append(f, NewFetch("default", defaultConfigPath, Null))
  ELSE f

\* The handler resumes from `await Promise.all([...])`; f[2] is the core
\* script's promise.
EdgeAfterAll(f) ==
  IF EdgeConfigPromise(f).state = "rejected" \/ f[2].state = "rejected"
  THEN Effect("done", f, <<EdgeCatch>>)
  ELSE IF EdgeConfigPromise(f).state = "fulfilled" /\ f[2].state = "fulfilled"
       THEN Effect("done", f,
                   <<EdgeOk(EdgeConfigPromise(f).value, f[2].value)>>)
       ELSE Effect("awaitAll", f, << >>)

EdgeStart(req) ==
  IF ~SafeId(EdgeCustomerId(req))
  THEN Effect("done", << >>, <<EdgeBadRequest>>)
  ELSE Effect("awaitAll",
              <<NewFetch("customer", customerConfigPath(EdgeCustomerId(req)),
                         Null),
                NewFetch("core", coreScriptPath, Null)>>,
              << >>)

\* req.url of the edge runtime is an absolute URL: `new URL(req.url)` parses.
EdgeHandler(req) ==
  /\ variant = "edge"
  /\ pc = "idle"
  /\ req.urlOk
  /\ request' = req
  /\ customerId' = EdgeCustomerId(req)
  /\ fetches' = EdgeStart(req).fetches
  /\ pc' = EdgeStart(req).pc
  /\ responses' = responses \o EdgeStart(req).send
  /\ UNCHANGED <<variant, env>>

EdgeFetchSettles(i, outcome) ==
  /\ variant = "edge"
  /\ fetches[i].state = "pending"
  /\ LET f == EdgeOnSettle(
                Settle(fetches, i, outcome, fetchFromGitHub(outcome)), i)
         e == IF pc = "awaitAll" THEN EdgeAfterAll(f) ELSE Effect(pc, f, << >>)
     IN /\ fetches' = e.fetches
        /\ pc' = e.pc
        /\ responses' = responses \o e.send
  /\ UNCHANGED <<variant, env, request, customerId>>

-----------------------------------------------------------------------------
(* Specifications *)

Variants == {"v15", "edge", "v12"}

\* Before the invocation: a variant is deployed with its environment.
Init ==
  /\ variant \in Variants
  /\ env \in (IF variant = "v15" THEN Envs ELSE {NoEnv})
  /\ request = NoRequest
  /\ customerId = Null
  /\ fetches = << >>
  /\ pc = "idle"
  /\ responses = << >>

\* the pipeline: one invocation on a sample of requests, every settlement of
\* every fetch in every order
Next ==
  \/ pc = "idle" /\ \E req \in Requests(SamplePaths) : V15Handler(req)
  \/ pc = "idle" /\ \E req \in Requests(SamplePaths) : V12Handler(req)
  \/ pc = "idle" /\ \E req \in Requests(SamplePaths) : EdgeHandler(req)
  \/ \E i \in DOMAIN fetches : \E outcome \in FetchOutcomes(fetches[i].path) :
       V15FetchSettles(i, outcome)
  \/ \E i \in DOMAIN fetches : \E outcome \in FetchOutcomes(fetches[i].path) :
       V12FetchSettles(i, outcome)
  \/ \E i \in DOMAIN fetches : \E outcome \in FetchOutcomes(fetches[i].path) :
       EdgeFetchSettles(i, outcome)

Spec == Init /\ [][Next]_vars

\* every fetch the v1.5 handler issued eventually settles
FetchesComplete ==
  WF_vars(\E i \in DOMAIN fetches : \E outcome \in FetchOutcomes(fetches[i].path) :
            V15FetchSettles(i, outcome))

SpecFair == Spec /\ FetchesComplete

\* identifier resolution: the synchronous prefix of the handlers on every
\* pathname of at most MaxPathLen characters
NextResolve ==
  \/ pc = "idle" /\ \E req \in Requests(PathNames(MaxPathLen)) : V15Handler(req)
  \/ pc = "idle" /\ \E req \in Requests(PathNames(MaxPathLen)) : V12Handler(req)
  \/ pc = "idle" /\ \E req \in Requests(PathNames(MaxPathLen)) : EdgeHandler(req)

SpecResolve == Init /\ [][NextResolve]_vars

-----------------------------------------------------------------------------
(* What the claims speak of *)

Invoked == request # NoRequest

\* a request that gets past the preflight check and the URL parser
Resolvable(v) ==
  /\ variant = v
  /\ Invoked
  /\ request.urlOk
  /\ ~(v = "v15" /\ request.method = "OPTIONS")

HasFetch(file) == \E i \in DOMAIN fetches : fetches[i].file = file

TheFetch(file) ==
  fetches[CHOOSE i \in DOMAIN fetches : fetches[i].file = file]

\* the content store answered with the file (a 2xx response, whatever it holds)
Found(file) ==
  /\ HasFetch(file)
  /\ TheFetch(file).outcome.settled = "response"
  /\ ResponseOk(TheFetch(file).outcome.status)

\* the content store answered 404
NotFound(file) ==
  /\ HasFetch(file)
  /\ TheFetch(file).outcome.settled = "response"
  /\ TheFetch(file).outcome.status = 404

\* RemoteUnavailable: a transport failure or a non-2xx, non-404 status
Unavailable(file) ==
  /\ HasFetch(file)
  /\ \/ TheFetch(file).outcome.settled = "error"
     \/ /\ TheFetch(file).outcome.settled = "response"
        /\ ~ResponseOk(TheFetch(file).outcome.status)
        /\ TheFetch(file).outcome.status # 404

ContentOf(file) == TheFetch(file).outcome.text

\* exactly one response was sent, with this status
Answered(status) == Len(responses) = 1 /\ responses[1].status = status

\* a `//` comment up to and including its line break
IsCommentLine(s) ==
  /\ Len(s) >= 2
  /\ s[1] = "//"
  /\ s[Len(s)] = "\n"
  /\ \A i \in 1..(Len(s) - 1) : s[i] # "\n"

\* the statement binding cfg to window.ChatWidgetConfig, a blank line, core
Binding(cfg, core) ==
  <<"window.ChatWidgetConfig = ">> \o cfg \o <<";", "\n\n">> \o core

\* The body's first statement binds cfg and the rest of the body is core:
\* nothing but a comment line may precede the statement.
BindsThen(body, cfg, core) ==
  \E k \in 0..Len(body) :
    /\ k = 0 \/ IsCommentLine(SubSeq(body, 1, k))
    /\ SubSeq(body, k + 1, Len(body)) = Binding(cfg, core)

-----------------------------------------------------------------------------
(* Claims *)

\* C1: in the v1.5 handler, a GET request whose customer config and engine
\* script are both present at the ref is answered 200 with a body whose first
\* statement binds that customer's config content and whose rest is the
\* engine script content, and no default-config fetch is issued.
C1_CustomerConfigServed ==
  (/\ Resolvable("v15")
   /\ request.method = "GET"
   /\ Found("customer")
   /\ Found("core"))
  => /\ Answered(200)
     /\ BindsThen(responses[1].body, ContentOf("customer"), ContentOf("core"))
     /\ ~HasFetch("default")

\* C2: in the v1.5 handler, a GET request whose customer-config fetch returns
\* not found while the default-config fetch and the engine-script fetch both
\* return content is answered 200 with a body binding the default config.
C2_DefaultConfigServed ==
  (/\ Resolvable("v15")
   /\ request.method = "GET"
   /\ NotFound("customer")
   /\ Found("default")
   /\ Found("core"))
  => /\ Answered(200)
     /\ BindsThen(responses[1].body, ContentOf("default"), ContentOf("core"))

\* C3 as claimed: in the v1.5 handler, a GET request with a determinable
\* customerId for which neither the customer config nor the default config is
\* present is answered 404 whatever the outcome of the engine-script fetch:
\* content, not found or RemoteUnavailable. (The default config is known to
\* be absent when its fetch returned not found; a default config that is
\* never asked for is absent in some content store.)
C3_Original ==
  (/\ Resolvable("v15")
   /\ request.method = "GET"
   /\ NotFound("customer")
   /\ HasFetch("default") => NotFound("default")
   /\ Found("core") \/ NotFound("core") \/ Unavailable("core"))
  => Answered(404)

\* C3 as amended: with the customer config and the default config both not
\* found, the response is 404 whenever the engine-script fetch returns
\* content or not found, and which of the two it returns changes nothing of
\* the response; when the engine-script fetch fails with RemoteUnavailable
\* the response is the generic 500 and the default config is not fetched.
C3_NoConfig ==
  (/\ Resolvable("v15")
   /\ request.method = "GET"
   /\ NotFound("customer"))
  => /\ NotFound("default")
        => /\ Found("core") \/ NotFound("core")
           /\ responses = <<V15NoDefault>>
     /\ Unavailable("core")
        => /\ responses = <<V15Catch>>
           /\ ~HasFetch("default")

\* C3's case: neither config found, the engine script not found either, 404.
C3_Witness ==
  /\ Resolvable("v15")
  /\ request.method = "GET"
  /\ NotFound("customer")
  /\ NotFound("default")
  /\ NotFound("core")
  /\ Answered(404)

\* no fetch was answered with an empty file
NoEmptyFile ==
  \A i \in DOMAIN fetches :
    ResponseOk(fetches[i].outcome.status) => fetches[i].outcome.text # << >>

\* C4 as claimed: in the v1.5 handler, a GET request with a determinable
\* customerId whose engine-script fetch returns not found is answered 500,
\* whatever the outcome of the config resolution: customer config found,
\* default config used, or neither config present. (Stated for the files that
\* are absent or non-empty, where a falsy content means not found.)
C4_Original ==
  (/\ Resolvable("v15")
   /\ request.method = "GET"
   /\ NotFound("core")
   /\ NoEmptyFile
   /\ Len(responses) >= 1)
  => Answered(500)

\* the default-config fetch yields nothing the handler takes for a config
DefaultYieldsNone ==
  NotFound("default") \/ (Found("default") /\ ContentOf("default") = << >>)

\* C4 as amended: with the engine-script fetch returning not found, the
\* response is the engine-script 500 when a config was resolved (the
\* customer's, or the default one), the generic 500 when a config fetch
\* failed with RemoteUnavailable, and 404, not 500, when the default-config
\* fetch yields no config.
C4_NoEngineScript ==
  (/\ Resolvable("v15")
   /\ request.method = "GET"
   /\ NotFound("core")
   /\ Len(responses) >= 1)
  => /\ Len(responses) = 1
     /\ DefaultYieldsNone => responses[1] = V15NoDefault
     /\ (Unavailable("customer") \/ Unavailable("default"))
          => responses[1] = V15Catch
     /\ \/ Found("customer") /\ ContentOf("customer") # << >>
        \/ Found("default") /\ ContentOf("default") # << >>
        => responses[1] = V15NoCore
     /\ responses[1].status \in {404, 500}
     /\ responses[1].status = 404 <=> DefaultYieldsNone

\* C4's case: the customer config is found, the engine script is not: 500.
C4_Witness ==
  /\ Resolvable("v15")
  /\ request.method = "GET"
  /\ NotFound("core")
  /\ Found("customer")
  /\ responses = <<V15NoCore>>

\* C5: in every variant, a 200 response is sent only when a config fetch
\* (customer or default) and the engine-script fetch both returned a file,
\* and its body is built from exactly what those two fetches returned.
C5_NoPartialScript ==
  \A k \in DOMAIN responses :
    responses[k].status = 200
      => \E c \in {"customer", "default"} :
           /\ Found(c)
           /\ Found("core")
           /\ BindsThen(responses[k].body, ContentOf(c), ContentOf("core"))

\* C5's case: the edge variant answers 200 with the default config.
C5_Witness ==
  /\ variant = "edge"
  /\ Answered(200)
  /\ NotFound("customer")
  /\ Found("default")
  /\ Found("core")

\* C6: in the v1.5 handler, every response sent, whatever its status, carries
\* Access-Control-Allow-Origin: *.
C6_CorsOnEveryResponse ==
  variant = "v15"
    => \A k \in DOMAIN responses : ACAO \in responses[k].headers

\* C7: in the v1.5 handler, every OPTIONS request, whatever its path and
\* query, is answered 204 with an empty body and the CORS headers, and no
\* fetch is issued for it.
C7_Preflight ==
  (variant = "v15" /\ Invoked /\ request.method = "OPTIONS")
  => /\ Answered(204)
     /\ responses[1].body = << >>
     /\ responses[1].headers =
          {<<"Access-Control-Allow-Origin", "*">>,
           <<"Access-Control-Allow-Methods", "GET, OPTIONS">>,
           <<"Access-Control-Allow-Headers", "Content-Type">>}
     /\ fetches = << >>
     /\ pc = "done"

\* C7's case: a preflight request with a path and an `id` parameter.
C7_Witness ==
  /\ variant = "v15"
  /\ request.method = "OPTIONS"
  /\ request.urlOk
  /\ request.pathname = <<"/", "a", ".", "j", "s">>
  /\ request.id = <<"s", "a">>
  /\ Answered(204)

\* C8: in the v1.5 and v1.2 handlers, a request with a non-empty `id` query
\* parameter has the customer config fetched at configs/customers/<id>.json
\* with <id> exactly the parameter's value, whatever the request path.
C8_QueryIdWins ==
  \A v \in {"v15", "v12"} :
    (Resolvable(v) /\ request.id # Null /\ request.id # << >>)
    => /\ customerId = request.id
       /\ HasFetch("customer")
       /\ TheFetch("customer").path =
            <<"configs/customers/">> \o request.id \o <<".json">>

\* C8's case: the path encodes the identifier `a`, the parameter says `sa`.
C8_Witness ==
  /\ Resolvable("v12")
  /\ request.pathname = <<"/", "a", ".", "j", "s">>
  /\ request.id = <<"s", "a">>
  /\ TheFetch("customer").path = <<"configs/customers/", "s", "a", ".json">>

\* a non-empty name without a separator that does not end in `.js`
IsName(n) ==
  /\ n # << >>
  /\ \A i \in 1..Len(n) : n[i] # "/"
  /\ ~EndsWith(n, <<".", "j", "s">>)

\* the request resolved to the customer config of name n
ResolvedTo(n) ==
  /\ customerId = n
  /\ HasFetch("customer")
  /\ TheFetch("customer").path = <<"configs/customers/">> \o n \o <<".json">>

\* C9: in the v1.5 and v1.2 handlers, with no `id` query parameter, the paths
\* /n, /n/ and /n.js resolve to the customerId n for every non-empty name n
\* without a separator that does not end in `.js`.
C9_PathForms ==
  \A v \in {"v15", "v12"} :
    (Resolvable(v) /\ request.id = Null)
    => LET p == request.pathname
           n1 == SubSeq(p, 2, Len(p))
           n2 == SubSeq(p, 2, Len(p) - 1)
           n3 == SubSeq(p, 2, Len(p) - 3)
       IN /\ (p = <<"/">> \o n1 /\ IsName(n1)) => ResolvedTo(n1)
          /\ (p = <<"/">> \o n2 \o <<"/">> /\ IsName(n2)) => ResolvedTo(n2)
          /\ (p = <<"/">> \o n3 \o <<".", "j", "s">> /\ IsName(n3))
               => ResolvedTo(n3)

\* C9's case: /s.js resolves to s.
C9_Witness ==
  /\ Resolvable("v15")
  /\ request.id = Null
  /\ request.pathname = <<"/", "s", ".", "j", "s">>
  /\ ResolvedTo(<<"s">>)

\* The path yields no identifier: nothing is left of it once a leading
\* separator, one trailing separator and a trailing `.js` are taken off.
PathYieldsNone(p) ==
  LET a == IF p # << >> /\ p[1] = "/" THEN SubSeq(p, 2, Len(p)) ELSE p
      b == IF a # << >> /\ a[Len(a)] = "/" THEN SubSeq(a, 1, Len(a) - 1)
           ELSE a
      c == IF Len(b) >= 3 /\ SubSeq(b, Len(b) - 2, Len(b)) = <<".", "j", "s">>
           THEN SubSeq(b, 1, Len(b) - 3) ELSE b
  IN c = << >>

\* C10: in the v1.5 and v1.2 handlers, a request whose `id` parameter is
\* absent or empty and whose path yields no identifier is answered 400 and
\* no fetch is issued.
C10_BadRequest ==
  \A v \in {"v15", "v12"} :
    (/\ Resolvable(v)
     /\ request.id \in {Null, << >>}
     /\ PathYieldsNone(request.pathname))
    => /\ Answered(400)
       /\ fetches = << >>
       /\ pc = "done"

\* C10's case: the path /.js with an empty `id` parameter.
C10_Witness ==
  /\ Resolvable("v15")
  /\ request.method = "GET"
  /\ request.id = << >>
  /\ request.pathname = <<"/", ".", "j", "s">>
  /\ Answered(400)
  /\ fetches = << >>

\* the Cache-Control values a response carries
CacheControls(r) == {h[2] : h \in {p \in r.headers : p[1] = "Cache-Control"}}

NoCacheDirective == "no-cache, no-store, must-revalidate"

SharedCacheDirective == "s-maxage=3600, stale-while-revalidate"

\* C11: in the v1.5 handler, every 200 response carries exactly one
\* Cache-Control directive: the no-cache one when the resolved environment is
\* not production, the shared-cache one when it is production.
C11_CacheControl ==
  variant = "v15"
    => \A k \in DOMAIN responses :
         responses[k].status = 200
           => CacheControls(responses[k]) =
                IF env.VERCEL_ENV = <<"production">>
                THEN {SharedCacheDirective} ELSE {NoCacheDirective}

\* C11's case: a 200 response of a production deployment.
C11_Witness ==
  /\ variant = "v15"
  /\ env.VERCEL_ENV = <<"production">>
  /\ Answered(200)
  /\ CacheControls(responses[1]) = {SharedCacheDirective}

\* the allow-list of non-production branches C12 speaks of
TestBranches == {<<"test">>}

\* the ref the deployment is configured with
ConfiguredRef ==
  IF env.VERCEL_GIT_COMMIT_REF \in {Null, << >>}
  THEN <<"main">> ELSE env.VERCEL_GIT_COMMIT_REF

\* C12 as claimed: in the v1.5 handler, a bp_branch parameter whose value is
\* in the allow-list selects the ref of every fetch of the request and the
\* no-cache directive; an absent or unlisted one is ignored: the configured
\* ref, the production caching directive.
C12_Original ==
  (variant = "v15" /\ Invoked)
  => IF request.bp_branch \in TestBranches
     THEN /\ \A i \in DOMAIN fetches : fetches[i].ref = request.bp_branch
          /\ \A k \in DOMAIN responses :
               responses[k].status = 200
                 => CacheControls(responses[k]) = {NoCacheDirective}
     ELSE /\ \A i \in DOMAIN fetches : fetches[i].ref = ConfiguredRef
          /\ \A k \in DOMAIN responses :
               responses[k].status = 200
                 => CacheControls(responses[k]) = {SharedCacheDirective}

\* C12 as amended: the v1.5 handler reads no bp_branch parameter. Whatever
\* the parameter is, every fetch of a request is issued at the ref the
\* deployment is configured with (VERCEL_GIT_COMMIT_REF, or main when that is
\* unset), and the caching directive of a 200 response follows VERCEL_ENV
\* alone: shared caching in production, no-cache otherwise.
C12_RefFromEnvironment ==
  (variant = "v15" /\ Invoked)
  => /\ \A i \in DOMAIN fetches : fetches[i].ref = ConfiguredRef
     /\ \A k \in DOMAIN responses :
          responses[k].status = 200
            => CacheControls(responses[k]) =
                 IF env.VERCEL_ENV = <<"production">>
                 THEN {SharedCacheDirective} ELSE {NoCacheDirective}

\* C12's case: bp_branch=test on a production deployment of the ref dev: the
\* fetches go to dev, the response is cacheable.
C12_Witness ==
  /\ variant = "v15"
  /\ request.bp_branch = <<"test">>
  /\ env.VERCEL_GIT_COMMIT_REF = <<"dev">>
  /\ env.VERCEL_ENV = <<"production">>
  /\ Answered(200)
  /\ Len(fetches) = 3
  /\ \A i \in DOMAIN fetches : fetches[i].ref = <<"dev">>
  /\ CacheControls(responses[1]) = {SharedCacheDirective}

GenericServerError == <<"// Server Error: Could not process the request.">>

\* C13: in the v1.5 handler, as soon as a fetch of the request has failed with
\* RemoteUnavailable, the one response of the request is the 500 with the
\* generic server-error body (so never a 200 or a 404), and no failure of the
\* engine-script or customer-config fetch is followed by the default-config
\* fetch.
C13_UnavailableIs500 ==
  variant = "v15"
    => /\ (\E file \in {"core", "customer", "default"} : Unavailable(file))
            => /\ Answered(500)
               /\ responses[1].body = GenericServerError
       /\ (Unavailable("core") \/ Unavailable("customer"))
            => ~HasFetch("default")

\* C13's case: the customer config is not found and the default-config fetch
\* fails.
C13_Witness ==
  /\ variant = "v15"
  /\ NotFound("customer")
  /\ Unavailable("default")
  /\ Answered(500)
  /\ responses[1].body = GenericServerError

\* VERCEL_ENV as the deployment resolves it
ConfiguredEnv ==
  IF env.VERCEL_ENV \in {Null, << >>}
  THEN <<"development">> ELSE env.VERCEL_ENV

\* the comment line the v1.5 script starts with
Banner ==
  <<"//", " Vercel Env: ">> \o ConfiguredEnv \o <<" | Branch: ">>
    \o ConfiguredRef \o <<"\n">>

\* the config content a 200 response was built from
ResolvedConfig ==
  IF HasFetch("default") THEN ContentOf("default") ELSE ContentOf("customer")

\* C14 as claimed: in the v1.5 handler, every 200 response body is the
\* binding statement of the resolved config content with nothing before it,
\* then a blank line, then the engine script content.
C14_Original ==
  (variant = "v15" /\ Answered(200))
    => responses[1].body = Binding(ResolvedConfig, ContentOf("core"))

\* C14 as amended: in the v1.5 handler, every 200 response body is the
\* comment line `// Vercel Env: <env> | Branch: <ref>`, then the binding
\* statement of the resolved config content, then a blank line, then the
\* engine script content, in that order and with nothing else.
C14_BannerThenBinding ==
  (variant = "v15" /\ Answered(200))
    => /\ IsCommentLine(Banner)
       /\ responses[1].body =
            Banner \o Binding(ResolvedConfig, ContentOf("core"))

\* C14's case: a 200 response built from the default config.
C14_Witness ==
  /\ variant = "v15"
  /\ Answered(200)
  /\ HasFetch("default")
  /\ responses[1].body[1] = "//"
  /\ responses[1].body =
       Banner \o Binding(ContentOf("default"), ContentOf("core"))

\* the fetch of `file` was issued and fetch() has not settled
Pending(file) ==
  HasFetch(file) /\ TheFetch(file).outcome.settled = "pending"

\* C15 as claimed: in the v1.5 handler, no response is sent and no
\* default-config fetch is issued while the engine-script fetch or the
\* customer-config fetch is still pending.
C15_Original ==
  (variant = "v15" /\ HasFetch("core") /\ HasFetch("customer"))
    => ((responses # << >> \/ HasFetch("default"))
          => (~Pending("core") /\ ~Pending("customer")))

\* C15 as amended: in the v1.5 handler, the default-config fetch is never
\* issued while the engine-script fetch or the customer-config fetch is
\* pending, and the only response sent while one of the two is pending is the
\* generic 500, sent because the other one failed with RemoteUnavailable.
C15_JointAwait ==
  (variant = "v15" /\ HasFetch("core") /\ HasFetch("customer")
     /\ (Pending("core") \/ Pending("customer")))
    => /\ ~HasFetch("default")
       /\ responses # << >>
            => /\ Answered(500)
               /\ responses[1].body = GenericServerError
               /\ Unavailable("core") \/ Unavailable("customer")

\* C15's case: the engine-script fetch failed, the 500 is out, and the
\* customer-config fetch is still pending.
C15_Witness ==
  /\ variant = "v15"
  /\ Unavailable("core")
  /\ Pending("customer")
  /\ Answered(500)

\* C16: in the v1.5 handler, the default-config fetch is issued at most once,
\* and only when the customer-config fetch has completed with HTTP 404 (never
\* when the content store answered 2xx, whatever the content); no path is
\* fetched twice and a request issues at most three fetches.
C16_DefaultOnlyAfter404 ==
  variant = "v15"
    => /\ HasFetch("default") => NotFound("customer")
       /\ Found("customer") => ~HasFetch("default")
       /\ \A i, j \in DOMAIN fetches :
            fetches[i].path = fetches[j].path => i = j
       /\ Len(fetches) <= 3

\* C17: in the edge handler, the default-config fetch is issued only when the
\* customer-config fetch failed with HTTP 404; a customer-config fetch that
\* fails in any other way leads to an error response and to no default-config
\* fetch.
C17_EdgeRecoversOnlyNotFound ==
  variant = "edge"
    => /\ HasFetch("default") => NotFound("customer")
       /\ Unavailable("customer")
            => /\ ~HasFetch("default")
               /\ \A k \in DOMAIN responses : responses[k].status >= 400

SafeChars == Letters \cup Digits \cup {"_", "-"}

\* C18: in the edge handler, a customerId holding a character that is not a
\* letter, a digit, a hyphen or an underscore is answered 400 with no fetch
\* ever issued; every customer-config path fetched is configs/customers/,
\* then a non-empty id of such characters only, then .json.
C18_EdgeSafeIds ==
  (variant = "edge" /\ Invoked)
    => /\ (\E k \in 1..Len(customerId) : customerId[k] \notin SafeChars)
            => (Answered(400) /\ fetches = << >>)
       /\ \A i \in DOMAIN fetches :
            fetches[i].file = "customer"
              => /\ Len(fetches[i].path) >= 3
                 /\ fetches[i].path[1] = "configs/customers/"
                 /\ fetches[i].path[Len(fetches[i].path)] = ".json"
                 /\ \A k \in 2..(Len(fetches[i].path) - 1) :
                      fetches[i].path[k] \in SafeChars

\* C18's case: the id `s/a`, which would leave the customers directory, is
\* answered 400 and nothing is fetched.
C18_Witness ==
  /\ variant = "edge"
  /\ request.id = <<"s", "/", "a">>
  /\ Answered(400)
  /\ fetches = << >>

\* C19: in the v1.5 handler, an invocation never sends a second response, a
\* handler that has returned has sent exactly one, and, every issued fetch
\* eventually completing, every invocation eventually has its one response.
C19_ExactlyOneResponse ==
  /\ [](variant = "v15"
          => /\ Len(responses) <= 1
             /\ pc = "done" => Len(responses) = 1)
  /\ (variant = "v15" /\ Invoked) ~> (Len(responses) = 1)

\* C19's case: an invocation that went through all three fetches has its one
\* response, and nothing is pending.
C19_Witness ==
  /\ variant = "v15"
  /\ Len(fetches) = 3
  /\ \A i \in DOMAIN fetches : fetches[i].state # "pending"
  /\ Len(responses) = 1
  /\ pc = "done"

====
